---- MODULE Spec2Model ----
(***************************************************************************)
(* Model of the person-detection API server (src/api_server.py).           *)
(*                                                                         *)
(* The server keeps a global dict `sessions`, an upload directory per      *)
(* session (uploads/<id>/NNNNN.jpg) and one output video per session       *)
(* (results/<id>_processed.mp4).  Request handlers are coroutines on one   *)
(* event loop: they are atomic with respect to each other except at an     *)
(* `await`; upload_images awaits file.read() once per accepted file.       *)
(* process_images and clean_session are plain functions handed to          *)
(* BackgroundTasks, so they run on worker threads after the response has   *)
(* been sent and interleave freely with the handlers and with each other.  *)
(* Each statement group of a background function that touches shared state *)
(* is one step of the model.                                               *)
(*                                                                         *)
(* Abstractions: the fps parameter, timestamps and log output are dropped; *)
(* image bytes are reduced to decodable / not decodable; the detector is   *)
(* an environment choice of a person count per frame or an exception.      *)
(***************************************************************************)
EXTENDS Integers, Sequences, FiniteSets, TLC

\* ---- bounds ------------------------------------------------------------
MaxFiles == 2          \* files carried by one upload request
MaxTasks == 2          \* coroutines suspended at an await plus background tasks alive at once
MaxUploadRequests == 2 \* upload requests accepted in one behaviour
MaxRunRequests == 2    \* requests that schedule process_images in one behaviour
MaxPeople == 1         \* persons the detector reports in one frame
MaxPolls == 3          \* sleeps of the polling client that fit into its timeout

SessionIds == {"s1"}

NoSession == [status |-> "none"]
NoResponse == [op |-> "none"]

\* An uploaded item: the extension of its filename and whether its bytes
\* decode as an image.
Items ==
    { [ext |-> "jpg", ok |-> TRUE],
      [ext |-> "PNG", ok |-> FALSE],
      [ext |-> "txt", ok |-> TRUE] }

RECURSIVE SeqsUpTo(_, _)
SeqsUpTo(S, n) ==
    IF n = 0 THEN { <<>> }
    ELSE LET shorter == SeqsUpTo(S, n - 1)
         IN  shorter \cup { Append(q, x) : q \in { t \in shorter : Len(t) = n - 1 }, x \in S }

\* files: List[UploadFile] = File(...) is required, so a batch is not empty.
Batches == SeqsUpTo(Items, MaxFiles) \ { <<>> }

FileIdx == 0 .. (MaxFiles - 1)

VARIABLES
    sessions,    \* the global dict: id -> record, or NoSession when absent
    dirExists,   \* uploads/<id> exists
    frames,      \* uploads/<id>/NNNNN.jpg : index -> "none"|"empty"|"ok"|"bad"
    artifact,    \* results/<id>_processed.mp4 : "none"|"partial"|"complete"
    uploads,     \* upload_images coroutines suspended in await file.read(); the
                 \* field `alone` records that the request came for a new id and
                 \* that no other upload request for the id has arrived since
    runs,        \* process_images background tasks
    cleanQ,      \* clean_session tasks scheduled, before sessions.pop
    cleanR,      \* clean_session tasks after the pop, before rmtree
    nUploads,    \* upload requests accepted so far
    nRuns,       \* requests taken so far that schedule process_images
    nAccepted,   \* files accepted so far by all upload requests
    acceptedAt,  \* for the file at uploads/<id>/NNNNN.jpg, the value of nAccepted
                 \* when it was accepted (0 when there is no file)
    model,       \* the global detector: "none" until get_model has loaded it
    tracker,     \* the tracker state the detector keeps between model.track calls
                 \* (persist=True): 0 before any call, else the task that called last
    incarnation, \* how many records have been created under the id so far; a run
                 \* carries in `inc` the number of the record it was scheduled for
    deleted,     \* a delete request for the id has returned success and no upload
                 \* request for the id has arrived since
    client,      \* the polling client (wait_for_processing): where it is in its
                 \* loop, the id it polls, the sleeps it has taken and the last
                 \* status it was given
    response     \* the response the step just taken returned, NoResponse if none

vars == << sessions, dirExists, frames, artifact, uploads, runs,
           cleanQ, cleanR, nUploads, nRuns, nAccepted, acceptedAt, deleted, model, tracker, incarnation, client, response >>

IdleClient == [pc |-> "idle", sid |-> "none", elapsed |-> 0, seen |-> "none"]
IdleUpload == [pc |-> "idle"]
IdleRun == [pc |-> "idle"]

Known(s) == sessions[s] # NoSession

\* ---- pure helpers --------------------------------------------------------

\* str.lower() on the extensions that occur
Lower(ext) ==
    CASE ext = "PNG" -> "png"
      [] ext = "JPG" -> "jpg"
      [] ext = "JPEG" -> "jpeg"
      [] OTHER -> ext

\* file.filename.lower().endswith(('.jpg', '.jpeg', '.png'))
SupportedExtension(item) == Lower(item.ext) \in {"jpg", "jpeg", "png"}

\* the loop without the extension test of line 200: every item is accepted
NextValidUnfiltered(files, from) == IF from <= Len(files) THEN from ELSE 0

\* position of the next item at or after `from` that passes the extension
\* test, 0 when the loop runs off the end of the batch
NextValid(files, from) ==
    LET cand == { j \in from .. Len(files) : SupportedExtension(files[j]) }
    IN  IF cand = {} THEN 0 ELSE CHOOSE j \in cand : \A k \in cand : j <= k

\* number of items of a batch that pass the extension test
CountValid(files) == Cardinality({ j \in 1 .. Len(files) : SupportedExtension(files[j]) })

Content(item) == IF item.ok THEN "ok" ELSE "bad"

Max(a, b) == IF a >= b THEN a ELSE b

\* f"{file_count:05d}" as a sequence of decimal digits: at least five,
\* more when the number needs them
RECURSIVE Digits(_)
Digits(n) == IF n < 10 THEN << n >> ELSE Append(Digits(n \div 10), n % 10)

RECURSIVE ZeroPad(_, _)
ZeroPad(d, width) == IF Len(d) >= width THEN d ELSE ZeroPad(<< 0 >> \o d, width)

Format05d(n) == ZeroPad(Digits(n), 5)

\* string comparison of two file names NNNNN.jpg given by their digits; the
\* "." that follows the digits sorts before every digit
RECURSIVE NameLess(_, _)
NameLess(a, b) ==
    IF a = <<>> THEN b # <<>>
    ELSE IF b = <<>> THEN FALSE
    ELSE IF Head(a) # Head(b) THEN Head(a) < Head(b)
    ELSE NameLess(Tail(a), Tail(b))

PathLess(i, j) == NameLess(Format05d(i), Format05d(j))

\* sorted(list(image_dir.glob("*.jpg"))): insertion of each listed path into
\* the sorted prefix
RECURSIVE InsertPath(_, _)
InsertPath(sorted, p) ==
    IF sorted = <<>> THEN << p >>
    ELSE IF PathLess(p, Head(sorted)) THEN << p >> \o sorted
    ELSE << Head(sorted) >> \o InsertPath(Tail(sorted), p)

RECURSIVE SortPaths(_)
SortPaths(listing) ==
    IF listing = <<>> THEN <<>>
    ELSE InsertPath(SortPaths(Tail(listing)), Head(listing))

\* the files image_dir.glob("*.jpg") finds; a missing directory lists nothing
GlobSet(s) == IF dirExists[s] THEN { i \in FileIdx : frames[s][i] # "none" } ELSE {}

\* every order in which the directory listing may enumerate them
Listings(S) ==
    { q \in [1 .. Cardinality(S) -> S] : \A i, j \in 1 .. Cardinality(S) : i # j => q[i] # q[j] }

\* cv2.imread whose result is not tested for None: every file that exists
\* is taken for an image
ReadableUnchecked(s, i) == dirExists[s] /\ frames[s][i] # "none"

\* cv2.imread: None for a missing, empty or undecodable file
Readable(s, i) == dirExists[s] /\ frames[s][i] = "ok"

FreeSlots(tasks) == { k \in DOMAIN tasks : tasks[k].pc = "idle" }
FirstFree(tasks) == CHOOSE k \in FreeSlots(tasks) : \A m \in FreeSlots(tasks) : k <= m

ActiveRuns(s) == { r \in DOMAIN runs : runs[r].pc # "idle" /\ runs[r].sid = s }

RECURSIVE SumOver(_, _)
SumOver(f, S) == IF S = {} THEN 0 ELSE LET x == CHOOSE y \in S : TRUE IN f[x] + SumOver(f, S \ {x})

\* suspended upload coroutines and background tasks that have not returned
AliveTasks ==
    Cardinality(DOMAIN uploads \ FreeSlots(uploads)) + Cardinality(DOMAIN runs \ FreeSlots(runs))
    + SumOver(cleanQ, SessionIds) + SumOver(cleanR, SessionIds)

CanSpawn == AliveTasks < MaxTasks

CanRun == nRuns < MaxRunRequests

\* ---- initial state -------------------------------------------------------
Init ==
    /\ sessions = [s \in SessionIds |-> NoSession]
    /\ dirExists = [s \in SessionIds |-> FALSE]
    /\ frames = [s \in SessionIds |-> [i \in FileIdx |-> "none"]]
    /\ artifact = [s \in SessionIds |-> "none"]
    /\ uploads = [u \in 1 .. MaxTasks |-> IdleUpload]
    /\ runs = [r \in 1 .. MaxTasks |-> IdleRun]
    /\ cleanQ = [s \in SessionIds |-> 0]
    /\ cleanR = [s \in SessionIds |-> 0]
    /\ nUploads = 0
    /\ nRuns = 0
    /\ nAccepted = 0
    /\ acceptedAt = [s \in SessionIds |-> [i \in FileIdx |-> 0]]
    /\ deleted = [s \in SessionIds |-> FALSE]
    /\ model = "none"
    /\ tracker = 0
    /\ incarnation = [s \in SessionIds |-> 0]
    /\ client = IdleClient
    /\ response = NoResponse

\* ---- upload_images -------------------------------------------------------

\* background_tasks.add_task(process_images, session_id, fps)
NewRun(s) ==
    [pc |-> "start", sid |-> s, image_paths |-> <<>>, i |-> 0,
     total_people |-> 0, max_people_in_frame |-> 0, processed_count |-> 0,
     out |-> <<>>, linked |-> FALSE,
     inc |-> IF Known(s) THEN incarnation[s] ELSE incarnation[s] + 1]

AddRunTask(rs, s) == [rs EXCEPT ![FirstFree(rs)] = NewRun(s)]

\* lines 209-221 with line 220 storing the count of the batch alone
RegisteredOverwriting(rec, file_count) ==
    IF rec = NoSession
    THEN [status |-> "uploaded", file_count |-> file_count,
          processed_count |-> 0, max_people_in_frame |-> 0, total_people |-> 0,
          output_path |-> FALSE, error |-> FALSE]
    ELSE [rec EXCEPT !.status = "uploaded", !.file_count = file_count]

\* lines 209-221: create the record, or update status and file_count
Registered(rec, file_count) ==
    IF rec = NoSession
    THEN [status |-> "uploaded", file_count |-> file_count,
          processed_count |-> 0, max_people_in_frame |-> 0, total_people |-> 0,
          output_path |-> FALSE, error |-> FALSE]
    ELSE [rec EXCEPT !.status = "uploaded", !.file_count = rec.file_count + file_count]

\* line 224 without the test of file_count
StartsRunUncounted(process_now, file_count) == process_now

\* lines 223-236: what the handler schedules and returns
StartsRun(process_now, file_count) == process_now /\ file_count > 0

UploadResponse(s, files, process_now, file_count) ==
    [op |-> "upload", sid |-> s, code |-> 200,
     status |-> IF StartsRun(process_now, file_count) THEN "processing" ELSE "uploaded",
     accepted |-> file_count, files |-> files, process_now |-> process_now]

\* lines 209-236, run without a suspension point after the last file
UploadFinish(s, files, process_now, file_count, spawn) ==
    /\ StartsRun(process_now, file_count) => spawn
    /\ sessions' = [sessions EXCEPT ![s] = Registered(sessions[s], file_count)]
    /\ runs' = IF StartsRun(process_now, file_count) THEN AddRunTask(runs, s) ELSE runs
    /\ incarnation' = [incarnation EXCEPT ![s] = IF Known(s) THEN @ ELSE @ + 1]
    /\ response' = UploadResponse(s, files, process_now, file_count)

\* The id is new to the server: no record, no upload directory, and no
\* coroutine or background task that still works on it.
Fresh(s) ==
    /\ ~Known(s)
    /\ ~dirExists[s]
    /\ cleanQ[s] + cleanR[s] = 0
    /\ \A u \in DOMAIN uploads : uploads[u].pc # "idle" => uploads[u].sid # s
    /\ ActiveRuns(s) = {}

\* a further upload request for the id arrives while others are suspended
Joined(tasks, s) ==
    [k \in DOMAIN tasks |->
        IF tasks[k].pc # "idle" /\ tasks[k].sid = s
        THEN [tasks[k] EXCEPT !.alone = FALSE]
        ELSE tasks[k]]

\* The handler from its entry to the first await (lines 190-206): mkdir,
\* skip the items without a supported extension, open the first accepted
\* file for writing.  A batch without an accepted item runs to the return.
UploadBegin(s, files, process_now) ==
    /\ nUploads < MaxUploadRequests
    /\ nUploads' = nUploads + 1
    \* a batch that will schedule a run is taken while a run can be scheduled
    /\ StartsRun(process_now, CountValid(files)) => CanRun
    /\ nRuns' = IF StartsRun(process_now, CountValid(files)) THEN nRuns + 1 ELSE nRuns
    /\ dirExists' = [dirExists EXCEPT ![s] = TRUE]
    /\ deleted' = [deleted EXCEPT ![s] = FALSE]
    /\ LET j == NextValid(files, 1)
       IN  IF j = 0
           THEN /\ UploadFinish(s, files, process_now, 0, CanSpawn)
                /\ uploads' = Joined(uploads, s)
                /\ UNCHANGED << frames, nAccepted, acceptedAt >>
           ELSE /\ CanSpawn
                /\ frames' = [frames EXCEPT ![s][0] = "empty"]
                /\ nAccepted' = nAccepted + 1
                /\ acceptedAt' = [acceptedAt EXCEPT ![s][0] = nAccepted + 1]
                /\ uploads' = [Joined(uploads, s) EXCEPT ![FirstFree(uploads)] =
                                  [pc |-> "reading", sid |-> s, files |-> files, i |-> j,
                                   file_count |-> 0, process_now |-> process_now,
                                   linked |-> TRUE, alone |-> Fresh(s)]]
                /\ response' = NoResponse
                /\ UNCHANGED << sessions, runs, incarnation >>
    /\ UNCHANGED << artifact, cleanQ, cleanR, model, tracker, client >>

\* The handler from the return of await file.read() to the next await or to
\* its return (lines 206-236): write the bytes, count the file, then either
\* open the next accepted file or register the batch.
UploadResume(u) ==
    LET up == uploads[u]
        s == up.sid
        written == IF up.linked
                   THEN [frames EXCEPT ![s][up.file_count] = Content(up.files[up.i])]
                   ELSE frames
        file_count == up.file_count + 1
        j == NextValid(up.files, up.i + 1)
    IN  /\ up.pc = "reading"
        /\ IF j = 0
           THEN /\ UploadFinish(s, up.files, up.process_now, file_count, TRUE)
                /\ frames' = written
                /\ uploads' = [uploads EXCEPT ![u] = IdleUpload]
                /\ UNCHANGED << nAccepted, acceptedAt >>
           ELSE IF dirExists[s]
           THEN /\ frames' = [written EXCEPT ![s][file_count] = "empty"]
                /\ nAccepted' = nAccepted + 1
                /\ acceptedAt' = [acceptedAt EXCEPT ![s][file_count] = nAccepted + 1]
                /\ uploads' = [uploads EXCEPT ![u] =
                                  [up EXCEPT !.i = j, !.file_count = file_count, !.linked = TRUE]]
                /\ response' = NoResponse
                /\ UNCHANGED << sessions, runs, incarnation >>
           ELSE \* open() raises FileNotFoundError: the request fails
                /\ frames' = written
                /\ uploads' = [uploads EXCEPT ![u] = IdleUpload]
                /\ response' = [op |-> "upload", sid |-> s, code |-> 500, files |-> up.files]
                /\ UNCHANGED << sessions, runs, nAccepted, acceptedAt, incarnation >>
        /\ UNCHANGED << dirExists, artifact, cleanQ, cleanR, nUploads, nRuns, deleted, model, tracker, client >>

\* ---- process_session -----------------------------------------------------

\* lines 254-256 alone, without the registry test of lines 251-252
ProcessRefusedByDirectory(s) == ~dirExists[s]

\* lines 251-256: the two checks that refuse a request
ProcessRefused(s) == ~Known(s) \/ ~dirExists[s]

ProcessSession(s) ==
    /\ IF ProcessRefused(s)
       THEN /\ response' = [op |-> "process", sid |-> s, code |-> 404]
            /\ UNCHANGED << sessions, runs, nRuns >>
       ELSE /\ CanSpawn
            /\ CanRun
            /\ nRuns' = nRuns + 1
            /\ sessions' = [sessions EXCEPT ![s].status = "processing"]
            /\ runs' = AddRunTask(runs, s)
            /\ response' = [op |-> "process", sid |-> s, code |-> 200, status |-> "processing"]
    /\ UNCHANGED << dirExists, frames, artifact, uploads, cleanQ, cleanR, nUploads, nAccepted, acceptedAt, deleted, model, tracker, incarnation, client >>

\* ---- check_status --------------------------------------------------------
StatusReply(s) ==
    IF Known(s)
    THEN [op |-> "status", sid |-> s, code |-> 200, record |-> sessions[s]]
    ELSE [op |-> "status", sid |-> s, code |-> 404]

CheckStatus(s) ==
    /\ response' = StatusReply(s)
    /\ UNCHANGED << sessions, dirExists, frames, artifact, uploads, runs,
                    cleanQ, cleanR, nUploads, nRuns, nAccepted, acceptedAt, deleted, model, tracker, incarnation, client >>

\* ---- download_video ------------------------------------------------------

\* lines 287-302: the status code, and the bytes FileResponse reads from the
\* output path ("none" when no file is served)
\* lines 287-302 without the status test of lines 291-292
DownloadResultAnyStatus(s) ==
    IF ~Known(s) THEN [code |-> 404, body |-> "none"]
    ELSE IF artifact[s] = "none" THEN [code |-> 404, body |-> "none"]
    ELSE [code |-> 200, body |-> artifact[s]]

DownloadResult(s) ==
    IF ~Known(s) THEN [code |-> 404, body |-> "none"]
    ELSE IF sessions[s].status # "completed" THEN [code |-> 400, body |-> "none"]
    ELSE IF ~sessions[s].output_path \/ artifact[s] = "none" THEN [code |-> 404, body |-> "none"]
    ELSE [code |-> 200, body |-> artifact[s]]

DownloadVideo(s) ==
    /\ response' = [op |-> "download", sid |-> s, code |-> DownloadResult(s).code,
                    body |-> DownloadResult(s).body]
    /\ UNCHANGED << sessions, dirExists, frames, artifact, uploads, runs,
                    cleanQ, cleanR, nUploads, nRuns, nAccepted, acceptedAt, deleted, model, tracker, incarnation, client >>

\* ---- delete_session and clean_session ------------------------------------

\* os.remove on a file a VideoWriter holds open unlinks the name; the writer
\* keeps writing to the unlinked file
Unlinked(tasks, s) ==
    [k \in DOMAIN tasks |->
        IF tasks[k].pc # "idle" /\ tasks[k].sid = s
        THEN [tasks[k] EXCEPT !.linked = FALSE]
        ELSE tasks[k]]

DeleteSession(s) ==
    /\ IF ~Known(s)
       THEN /\ response' = [op |-> "delete", sid |-> s, code |-> 404]
            /\ UNCHANGED << cleanQ, artifact, runs, deleted, model, tracker, incarnation >>
       ELSE /\ CanSpawn
            /\ cleanQ' = [cleanQ EXCEPT ![s] = @ + 1]
            /\ deleted' = [deleted EXCEPT ![s] = TRUE]
            /\ IF sessions[s].output_path /\ artifact[s] # "none"
               THEN /\ artifact' = [artifact EXCEPT ![s] = "none"]
                    /\ runs' = Unlinked(runs, s)
               ELSE UNCHANGED << artifact, runs >>
            /\ response' = [op |-> "delete", sid |-> s, code |-> 200]
    /\ UNCHANGED << sessions, dirExists, frames, uploads, cleanR, nUploads, nRuns, nAccepted, acceptedAt, model, tracker, incarnation, client >>

\* lines 47-48
CleanPop(s) ==
    /\ cleanQ[s] > 0
    /\ cleanQ' = [cleanQ EXCEPT ![s] = @ - 1]
    /\ cleanR' = [cleanR EXCEPT ![s] = @ + 1]
    /\ sessions' = [sessions EXCEPT ![s] = NoSession]
    /\ response' = NoResponse
    /\ UNCHANGED << dirExists, frames, artifact, uploads, runs, nUploads, nRuns, nAccepted, acceptedAt, deleted, model, tracker, incarnation, client >>

\* lines 51-53
CleanRmtree(s) ==
    /\ cleanR[s] > 0
    /\ cleanR' = [cleanR EXCEPT ![s] = @ - 1]
    /\ dirExists' = [dirExists EXCEPT ![s] = FALSE]
    /\ frames' = [frames EXCEPT ![s] = [i \in FileIdx |-> "none"]]
    /\ acceptedAt' = [acceptedAt EXCEPT ![s] = [i \in FileIdx |-> 0]]
    /\ uploads' = Unlinked(uploads, s)
    /\ response' = NoResponse
    /\ UNCHANGED << sessions, artifact, runs, cleanQ, nUploads, nRuns, nAccepted, deleted, model, tracker, incarnation, client >>

\* ---- process_images ------------------------------------------------------

RunAt(r, pc) == runs[r].pc = pc

Return(r) == runs' = [runs EXCEPT ![r] = IdleRun]

\* lines 61-66
RunStart(r) ==
    /\ RunAt(r, "start")
    /\ IF Known(runs[r].sid)
       THEN runs' = [runs EXCEPT ![r].pc = "glob"]
       ELSE Return(r)
    /\ response' = NoResponse
    /\ UNCHANGED << sessions, dirExists, frames, artifact, uploads, cleanQ, cleanR, nUploads, nRuns, nAccepted, acceptedAt, deleted, model, tracker, incarnation, client >>

\* lines 69-74
RunGlob(r) ==
    /\ RunAt(r, "glob")
    /\ \E listing \in Listings(GlobSet(runs[r].sid)) :
          LET image_paths == SortPaths(listing)
          IN  IF image_paths = <<>>
              THEN Return(r)
              ELSE runs' = [runs EXCEPT ![r].pc = "first", ![r].image_paths = image_paths]
    /\ response' = NoResponse
    /\ UNCHANGED << sessions, dirExists, frames, artifact, uploads, cleanQ, cleanR, nUploads, nRuns, nAccepted, acceptedAt, deleted, model, tracker, incarnation, client >>

\* lines 80-85
RunFirst(r) ==
    /\ RunAt(r, "first")
    /\ IF Readable(runs[r].sid, runs[r].image_paths[1])
       THEN runs' = [runs EXCEPT ![r].pc = "writer"]
       ELSE Return(r)
    /\ response' = NoResponse
    /\ UNCHANGED << sessions, dirExists, frames, artifact, uploads, cleanQ, cleanR, nUploads, nRuns, nAccepted, acceptedAt, deleted, model, tracker, incarnation, client >>

\* lines 88-92: cv2.VideoWriter creates the output file; get_model() returns
\* the detector, loading it on first use, or raises when the weights cannot
\* be loaded
RunWriter(r) ==
    /\ RunAt(r, "writer")
    /\ artifact' = [artifact EXCEPT ![runs[r].sid] = "partial"]
    /\ \E loaded \in (IF model = "loaded" THEN {TRUE} ELSE BOOLEAN) :
          /\ runs' = [runs EXCEPT ![r].pc = IF loaded THEN "loop" ELSE "except",
                                  ![r].linked = TRUE, ![r].i = 1]
          /\ model' = IF loaded THEN "loaded" ELSE model
    /\ response' = NoResponse
    /\ UNCHANGED << sessions, dirExists, frames, uploads, cleanQ, cleanR, nUploads, nRuns, nAccepted, acceptedAt, deleted, tracker, incarnation, client >>

\* lines 116-120 with line 119 keeping the count of the last frame
CountedLast(run, people_count) ==
    [run EXCEPT !.max_people_in_frame = people_count,
                !.total_people = run.total_people + people_count]

\* lines 116-120 for a frame in which the detector reports people_count boxes
Counted(run, people_count) ==
    [run EXCEPT !.max_people_in_frame = Max(run.max_people_in_frame, people_count),
                !.total_people = run.total_people + people_count]

\* lines 99-148, one iteration: read, detect, count, write
RunFrame(r) ==
    LET run == runs[r]
        s == run.sid
        img_path == run.image_paths[run.i]
    IN  /\ RunAt(r, "loop")
        /\ run.i <= Len(run.image_paths)
        /\ IF ~Readable(s, img_path)
           THEN /\ runs' = [runs EXCEPT ![r].i = run.i + 1]
                /\ UNCHANGED << artifact, tracker, incarnation >>
           ELSE \/ \E people_count \in 0 .. MaxPeople :
                      /\ runs' = [runs EXCEPT ![r] =
                                     [Counted(run, people_count) EXCEPT
                                         !.i = run.i + 1,
                                         !.processed_count = run.processed_count + 1,
                                         !.out = Append(run.out, [path |-> img_path,
                                                                 at |-> acceptedAt[s][img_path],
                                                                 people |-> people_count])]]
                      /\ artifact' = IF run.linked
                                     THEN [artifact EXCEPT ![s] = "partial"]
                                     ELSE artifact
                      /\ tracker' = r
                \/ \* model.track raises
                   /\ runs' = [runs EXCEPT ![r].pc = "except"]
                   /\ tracker' \in {tracker, r}
                   /\ UNCHANGED artifact
        /\ response' = NoResponse
        /\ UNCHANGED << sessions, dirExists, frames, uploads, cleanQ, cleanR, nUploads, nRuns, nAccepted, acceptedAt, deleted, model, incarnation, client >>

\* line 151
RunRelease(r) ==
    /\ RunAt(r, "loop")
    /\ runs[r].i > Len(runs[r].image_paths)
    /\ runs' = [runs EXCEPT ![r].pc = "update"]
    /\ artifact' = IF runs[r].linked
                   THEN [artifact EXCEPT ![runs[r].sid] = "complete"]
                   ELSE artifact
    /\ response' = NoResponse
    /\ UNCHANGED << sessions, dirExists, frames, uploads, cleanQ, cleanR, nUploads, nRuns, nAccepted, acceptedAt, deleted, model, tracker, incarnation, client >>

\* lines 154-159 without the output_path entry of line 159
CompletedUnpublished(rec, run) ==
    [rec EXCEPT !.status = "completed",
                !.processed_count = run.processed_count,
                !.max_people_in_frame = run.max_people_in_frame,
                !.total_people = run.total_people]

\* lines 154-160
Completed(rec, run) ==
    [rec EXCEPT !.status = "completed",
                !.processed_count = run.processed_count,
                !.max_people_in_frame = run.max_people_in_frame,
                !.total_people = run.total_people,
                !.output_path = TRUE]

\* lines 154-163; sessions[session_id] raises KeyError for a popped session
RunUpdate(r) ==
    /\ RunAt(r, "update")
    /\ IF Known(runs[r].sid)
       THEN /\ sessions' = [sessions EXCEPT ![runs[r].sid] = Completed(@, runs[r])]
            /\ Return(r)
       ELSE /\ runs' = [runs EXCEPT ![r].pc = "except"]
            /\ UNCHANGED sessions
    /\ response' = NoResponse
    /\ UNCHANGED << dirExists, frames, artifact, uploads, cleanQ, cleanR, nUploads, nRuns, nAccepted, acceptedAt, deleted, model, tracker, incarnation, client >>

\* lines 165-167 and 170
RunExcept(r) ==
    /\ RunAt(r, "except")
    /\ IF Known(runs[r].sid)
       THEN runs' = [runs EXCEPT ![r].pc = "seterror"]
       ELSE Return(r)
    /\ response' = NoResponse
    /\ UNCHANGED << sessions, dirExists, frames, artifact, uploads, cleanQ, cleanR, nUploads, nRuns, nAccepted, acceptedAt, deleted, model, tracker, incarnation, client >>

\* lines 168-170; a session popped since the test of line 167 raises KeyError
\* out of the handler and the task dies
RunSetError(r) ==
    /\ RunAt(r, "seterror")
    /\ IF Known(runs[r].sid)
       THEN sessions' = [sessions EXCEPT ![runs[r].sid].status = "error",
                                         ![runs[r].sid].error = TRUE]
       ELSE UNCHANGED sessions
    /\ Return(r)
    /\ response' = NoResponse
    /\ UNCHANGED << dirExists, frames, artifact, uploads, cleanQ, cleanR, nUploads, nRuns, nAccepted, acceptedAt, deleted, model, tracker, incarnation, client >>

\* ---- the system ----------------------------------------------------------
Next ==
    \/ \E s \in SessionIds, files \in Batches, process_now \in BOOLEAN :
          UploadBegin(s, files, process_now)
    \/ \E u \in DOMAIN uploads : UploadResume(u)
    \/ \E s \in SessionIds : ProcessSession(s)
    \/ \E s \in SessionIds : CheckStatus(s)
    \/ \E s \in SessionIds : DownloadVideo(s)
    \/ \E s \in SessionIds : DeleteSession(s)
    \/ \E s \in SessionIds : CleanPop(s)
    \/ \E s \in SessionIds : CleanRmtree(s)
    \/ \E r \in DOMAIN runs : RunStart(r)
    \/ \E r \in DOMAIN runs : RunGlob(r)
    \/ \E r \in DOMAIN runs : RunFirst(r)
    \/ \E r \in DOMAIN runs : RunWriter(r)
    \/ \E r \in DOMAIN runs : RunFrame(r)
    \/ \E r \in DOMAIN runs : RunRelease(r)
    \/ \E r \in DOMAIN runs : RunUpdate(r)
    \/ \E r \in DOMAIN runs : RunExcept(r)
    \/ \E r \in DOMAIN runs : RunSetError(r)

Spec == Init /\ [][Next]_vars

\* A step of the background task r, of a clean_session task, or the
\* resumption of a suspended upload coroutine.
RunStep(r) ==
    \/ RunStart(r) \/ RunGlob(r) \/ RunFirst(r) \/ RunWriter(r) \/ RunFrame(r)
    \/ RunRelease(r) \/ RunUpdate(r) \/ RunExcept(r) \/ RunSetError(r)

CleanStep(s) == CleanPop(s) \/ CleanRmtree(s)

\* The worker threads and the event loop keep running: a background task
\* that can take a step takes it, and a coroutine whose read has returned is
\* resumed.  No request is ever forced to arrive.
Fairness ==
    /\ \A r \in 1 .. MaxTasks : WF_vars(RunStep(r))
    /\ \A s \in SessionIds : WF_vars(CleanStep(s))
    /\ \A u \in 1 .. MaxTasks : WF_vars(UploadResume(u))

FairSpec == Init /\ [][Next]_vars /\ Fairness

\* the variables of the server
stores == << sessions, dirExists, frames, artifact, uploads, runs,
             cleanQ, cleanR, nUploads, nRuns, nAccepted, acceptedAt, deleted, model, tracker, incarnation >>

\* ---- the polling client ---------------------------------------------------
\* raspberry_pi_client.py wait_for_processing and the loop of test_api.py
\* main: poll the status until completed, error, a failed query or the
\* timeout; download after completed.  The client is a process of its own;
\* its requests are served by check_status and download_video.

\* the loop body without the test for status error: the client keeps polling
AfterStatusIgnoringError(c, reply) ==
    IF reply.code # 200
    THEN [c EXCEPT !.pc = "done", !.seen = "failed"]
    ELSE IF reply.record.status = "completed"
    THEN [c EXCEPT !.pc = "download", !.seen = "completed"]
    ELSE [c EXCEPT !.elapsed = @ + 1, !.seen = reply.record.status]

\* the loop body for the reply of check_status: None (a failed query)
\* breaks out of the loop, completed goes to the download, error returns,
\* anything else sleeps
AfterStatus(c, reply) ==
    IF reply.code # 200
    THEN [c EXCEPT !.pc = "done", !.seen = "failed"]
    ELSE IF reply.record.status = "completed"
    THEN [c EXCEPT !.pc = "download", !.seen = "completed"]
    ELSE IF reply.record.status = "error"
    THEN [c EXCEPT !.pc = "done", !.seen = "error"]
    ELSE [c EXCEPT !.elapsed = @ + 1, !.seen = reply.record.status]

\* while time.time() - start_time < timeout
TimedOut(c) == c.elapsed >= MaxPolls

ClientStart(s) ==
    /\ client.pc = "idle"
    /\ client' = [pc |-> "poll", sid |-> s, elapsed |-> 0, seen |-> "none"]
    /\ response' = NoResponse
    /\ UNCHANGED stores

ClientPoll ==
    /\ client.pc = "poll"
    /\ IF TimedOut(client)
       THEN /\ client' = [client EXCEPT !.pc = "done"]
            /\ response' = NoResponse
       ELSE /\ response' = StatusReply(client.sid)
            /\ client' = AfterStatus(client, StatusReply(client.sid))
    /\ UNCHANGED stores

ClientDownload ==
    /\ client.pc = "download"
    /\ response' = [op |-> "download", sid |-> client.sid,
                    code |-> DownloadResult(client.sid).code,
                    body |-> DownloadResult(client.sid).body]
    /\ client' = [client EXCEPT !.pc = "done"]
    /\ UNCHANGED stores

ClientStep == ClientPoll \/ ClientDownload

\* The server with one polling client: the one upload with process_now the
\* client sends first, the tasks it sets off, and deletes by another party.
ClientNext ==
    \/ \E s \in SessionIds, files \in Batches : nUploads = 0 /\ UploadBegin(s, files, TRUE)
    \/ \E u \in DOMAIN uploads : UploadResume(u)
    \/ \E s \in SessionIds : DeleteSession(s)
    \/ \E s \in SessionIds : CleanPop(s)
    \/ \E s \in SessionIds : CleanRmtree(s)
    \/ \E r \in DOMAIN runs : RunStart(r)
    \/ \E r \in DOMAIN runs : RunGlob(r)
    \/ \E r \in DOMAIN runs : RunFirst(r)
    \/ \E r \in DOMAIN runs : RunWriter(r)
    \/ \E r \in DOMAIN runs : RunFrame(r)
    \/ \E r \in DOMAIN runs : RunRelease(r)
    \/ \E r \in DOMAIN runs : RunUpdate(r)
    \/ \E r \in DOMAIN runs : RunExcept(r)
    \/ \E r \in DOMAIN runs : RunSetError(r)
    \/ \E s \in SessionIds : ClientStart(s)
    \/ ClientPoll
    \/ ClientDownload

\* the client process keeps running once it has been started
ClientSpec == Init /\ [][ClientNext]_vars /\ WF_vars(ClientStep)

\* ---- properties ----------------------------------------------------------

Status(s) == sessions[s].status

UploadsInFlight(s) == { u \in DOMAIN uploads : uploads[u].pc # "idle" /\ uploads[u].sid = s }

\* C1: for every session id at most one process_images execution is
\* scheduled or running at any time.
C1_AtMostOneRun == \A s \in SessionIds : Cardinality(ActiveRuns(s)) <= 1

\* the transition graph of the session status
StatusGraph ==
    { << "uploaded", "processing" >>, << "processing", "completed" >>,
      << "processing", "error" >>, << "completed", "uploaded" >>,
      << "error", "uploaded" >> }

\* C2: every change of the stored status of a session is an edge of the
\* transition graph; in particular never uploaded -> completed or error.
C2_StatusGraph ==
    [][\A s \in SessionIds :
          (Known(s) /\ Known(s)' /\ Status(s)' # Status(s))
              => << Status(s), Status(s)' >> \in StatusGraph]_vars

\* C3: while the status of a session is processing it is not set back to
\* uploaded (by an upload batch for the same id); only the run's completed
\* or error leaves processing.
C3_ProcessingKept ==
    [][\A s \in SessionIds :
          (Known(s) /\ Status(s) = "processing" /\ Known(s)')
              => Status(s)' \in {"processing", "completed", "error"}]_vars

\* C4: a process request for a known session without stored frames is
\* refused: no success response, the status does not become processing and
\* no background run is scheduled.
C4_NoFramesRefused ==
    [][\A s \in SessionIds :
          (ProcessSession(s) /\ Known(s) /\ GlobSet(s) = {})
              => /\ response'.code # 200
                 /\ sessions' = sessions
                 /\ runs' = runs]_vars

\* C5: a run for an existing session that finds no frames, or cannot read
\* its first frame, ends with the status of the session set to error.
C5_NoFramesIsError ==
    [][\A r \in DOMAIN runs, s \in SessionIds :
          (/\ runs[r].pc \in {"glob", "first"}
           /\ runs[r].sid = s
           /\ Known(s)
           /\ RunGlob(r) \/ RunFirst(r)
           /\ runs'[r] = IdleRun)
              => /\ Known(s)'
                 /\ Status(s)' = "error"
                 /\ sessions'[s].error]_vars

\* C6: under fair scheduling of the background tasks, a session whose
\* status is processing eventually has status completed or error, unless it
\* is deleted or a further upload sets the status to uploaded first.
C6_ProcessingEnds ==
    \A s \in SessionIds :
        (Known(s) /\ Status(s) = "processing")
            ~> (\/ ~Known(s)
                \/ Status(s) \in {"completed", "error"}
                \/ Status(s) = "uploaded")

\* C7: once the uploads for a session have returned, the frame store holds
\* as many frames as the record's file_count says: no batch overwrote a
\* frame of an earlier one.
C7_FramesMatchFileCount ==
    \A s \in SessionIds :
        (Known(s) /\ UploadsInFlight(s) = {} /\ cleanQ[s] + cleanR[s] = 0)
            => Cardinality(GlobSet(s)) = sessions[s].file_count

\* C8: an upload of N files with a supported extension and M without one to
\* a new session id answers 200 with N accepted, creates the record with
\* file_count = N and leaves exactly the frames 0 .. N-1, all written.
FreshUploadDone(s, files) ==
    /\ response'.op = "upload"
    /\ response'.sid = s
    /\ response'.code = 200
    /\ response'.accepted = CountValid(files)
    /\ response'.files = files
    /\ Known(s)'
    /\ sessions[s]'.file_count = CountValid(files)
    /\ GlobSet(s)' = 0 .. (CountValid(files) - 1)
    /\ \A i \in GlobSet(s)' : frames[s]'[i] # "empty"

Ascending(q) == \A i, j \in 1 .. Len(q) : i < j => q[i] < q[j]

\* C9: a run visits the frames in ascending sequence index, whatever order
\* the directory listing had, and the frames it appends to the output are in
\* ascending sequence index and in the order in which the uploads accepted
\* them.
C9_FrameOrder ==
    \A r \in DOMAIN runs :
        runs[r].pc # "idle" =>
            /\ Ascending(runs[r].image_paths)
            /\ Ascending([k \in 1 .. Len(runs[r].out) |-> runs[r].out[k].path])
            /\ Ascending([k \in 1 .. Len(runs[r].out) |-> runs[r].out[k].at])

\* C10: a download returns bytes only when the status is completed; for a
\* session that is uploaded, processing or in error it answers 400 without
\* bytes, and it changes nothing.
C10_DownloadOnlyCompleted ==
    [][\A s \in SessionIds :
          (response'.op = "download" /\ response'.sid = s)
              => /\ response'.body # "none" => (Known(s) /\ Status(s) = "completed")
                 /\ (Known(s) /\ Status(s) # "completed")
                        => (response'.code = 400 /\ response'.body = "none")
                 /\ UNCHANGED << sessions, dirExists, frames, artifact, uploads, runs,
                                 cleanQ, cleanR, nUploads, nRuns, nAccepted, acceptedAt, deleted, model, tracker, incarnation >>]_vars

C10_Witness ==
    \E s \in SessionIds :
        /\ response.op = "download" /\ response.sid = s
        /\ response.code = 400 /\ response.body = "none"
        /\ Known(s) /\ Status(s) = "processing"
        /\ artifact[s] = "partial"

\* C11: once a delete request for a session has returned success, every
\* later status query for the id answers 404, also while the run or the
\* clean-up scheduled for it has not finished.
C11_DeletedIsGone ==
    [][\A s \in SessionIds :
          (deleted[s] /\ response'.op = "status" /\ response'.sid = s)
              => response'.code = 404]_vars

\* C12: when a session is deleted while a run for it is in flight, the run
\* ends without an exception leaving process_images, whatever the order of
\* clean_session and the run's last steps; its final update is dropped and
\* it does not put the record back.
C12_RunSurvivesDelete ==
    [][\A r \in DOMAIN runs, s \in SessionIds :
          (runs[r].pc # "idle" /\ runs[r].sid = s /\ ~Known(s) /\ RunStep(r))
              => /\ ~RunAt(r, "seterror")   \* line 168 raises KeyError in the handler
                 /\ sessions' = sessions]_vars

\* C13: after a delete request for a session has returned success, a
\* further delete request for the id answers 404 and changes nothing.
C13_RepeatedDelete ==
    [][\A s \in SessionIds :
          (deleted[s] /\ response'.op = "delete" /\ response'.sid = s)
              => /\ response'.code = 404
                 /\ UNCHANGED stores]_vars

\* no coroutine and no background task still works on the id
Quiet(s) ==
    /\ UploadsInFlight(s) = {}
    /\ ActiveRuns(s) = {}
    /\ cleanQ[s] + cleanR[s] = 0

\* C14: after a session has been deleted and every task and run for it has
\* finished, there are no stored frames and no output video for the id.
C14_NothingLeft ==
    \A s \in SessionIds :
        (deleted[s] /\ Quiet(s)) => (GlobSet(s) = {} /\ artifact[s] = "none")

\* C15: a request that schedules a run leaves the stored status at
\* processing, so that the status it reports is the stored one.
C15_ScheduledIsProcessing ==
    [][\A s \in SessionIds :
          (/\ response'.op \in {"upload", "process"}
           /\ response'.sid = s
           /\ Cardinality(ActiveRuns(s))' > Cardinality(ActiveRuns(s)))
              => /\ Status(s)' = "processing"
                 /\ response'.status = Status(s)']_vars

\* C16: an upload batch to a session whose status is completed or error
\* sets the status to uploaded and leaves output_path and the output file as
\* they are; while the status stays uploaded the file the record refers to
\* stays the finished one, short of a delete.
C16_UploadKeepsArtifact ==
    [][\A s \in SessionIds :
          /\ (/\ Known(s)
              /\ Status(s) \in {"completed", "error"}
              /\ response'.op = "upload" /\ response'.sid = s /\ response'.code = 200)
                 => /\ Status(s)' = "uploaded"
                    /\ sessions'[s].output_path = sessions[s].output_path
                    /\ artifact'[s] = artifact[s]
          /\ (/\ Known(s)
              /\ Status(s) = "uploaded"
              /\ sessions[s].output_path
              /\ artifact[s] = "complete"
              /\ response'.op # "delete")
                 => artifact'[s] = "complete"]_vars

\* a run that has opened its VideoWriter on the output file and has not
\* released it
Writing(r) == runs[r].pc = "loop" /\ runs[r].linked

\* C17: while the status of a session is completed no run is writing to its
\* output file, and the file is not half-written.
C17_CompletedIsStable ==
    \A s \in SessionIds :
        (Known(s) /\ Status(s) = "completed")
            => /\ \A r \in ActiveRuns(s) : ~Writing(r)
               /\ artifact[s] # "partial"

\* C18: a status, download, delete or process request for an id that is not
\* in the registry answers 404, schedules nothing and changes nothing.
C18_UnknownIsNotFound ==
    [][\A s \in SessionIds :
          (/\ ~Known(s)
           /\ response'.op \in {"status", "download", "delete", "process"}
           /\ response'.sid = s)
              => /\ response'.code = 404
                 /\ UNCHANGED stores]_vars

C18_Witness ==
    \E s \in SessionIds :
        /\ response.op = "process" /\ response.sid = s /\ response.code = 404
        /\ ~Known(s)
        /\ dirExists[s]
        /\ GlobSet(s) # {}

\* C19: every upload that returns adds the number of files it accepted to
\* the file_count of the record and writes status and file_count in one
\* step, also when another upload for the id is suspended meanwhile; no
\* other step changes file_count, and a status query returns the record as
\* it is stored.
C19_NoLostUpdate ==
    [][\A s \in SessionIds :
          /\ (response'.op = "upload" /\ response'.sid = s /\ response'.code = 200)
                => /\ Known(s)'
                   /\ response'.accepted = CountValid(response'.files)
                   /\ sessions'[s].file_count =
                         (IF Known(s) THEN sessions[s].file_count ELSE 0) + response'.accepted
                   /\ Status(s)' = "uploaded"
          /\ (Known(s) /\ Known(s)' /\ response'.op # "upload")
                => sessions'[s].file_count = sessions[s].file_count
          /\ (response'.op = "status" /\ response'.sid = s /\ response'.code = 200)
                => /\ response'.record = sessions[s]
                   /\ sessions' = sessions]_vars

\* one of two uploads that were suspended together has returned, the other
\* is still reading
C19_Witness ==
    \E s \in SessionIds, u \in DOMAIN uploads :
        /\ uploads[u].pc = "reading" /\ uploads[u].sid = s
        /\ response.op = "upload" /\ response.sid = s /\ response.code = 200
        /\ response.accepted >= 1
        /\ Known(s) /\ sessions[s].file_count >= response.accepted

\* C20: an upload with process_now in which no file was accepted schedules
\* no run and reports status uploaded, for a new id and for a known one.
C20_NothingToProcess ==
    [][\A s \in SessionIds :
          (/\ response'.op = "upload" /\ response'.sid = s /\ response'.code = 200
           /\ response'.process_now
           /\ CountValid(response'.files) = 0)
              => /\ response'.status = "uploaded"
                 /\ response'.accepted = 0
                 /\ runs' = runs
                 /\ Status(s)' = "uploaded"]_vars

C20_Witness ==
    \E s \in SessionIds :
        /\ response.op = "upload" /\ response.sid = s /\ response.code = 200
        /\ response.process_now
        /\ CountValid(response.files) = 0
        /\ Known(s) /\ sessions[s].file_count > 0
        /\ ActiveRuns(s) = {}

\* C21: every session whose status is uploaded has at least one stored
\* frame; an upload without an accepted file leaves no session uploaded
\* with zero frames.
C21_UploadedHasFrames ==
    \A s \in SessionIds :
        (Known(s) /\ Status(s) = "uploaded") => GlobSet(s) # {}

\* C24: when the frame with the lowest index does not decode but a later one
\* does, the run does not return at the first frame: it goes on to take the
\* dimensions from a frame that decodes.
C24_FirstFrameSkipped ==
    [][\A r \in DOMAIN runs, s \in SessionIds :
          (/\ runs[r].pc = "first"
           /\ runs[r].sid = s
           /\ ~Readable(s, runs[r].image_paths[1])
           /\ \E k \in 2 .. Len(runs[r].image_paths) : Readable(s, runs[r].image_paths[k])
           /\ RunFirst(r))
              => runs'[r].pc # "idle"]_vars

\* C25: a frame other than the first that does not decode is skipped: the
\* run moves to the next frame with nothing counted or written, the frames
\* that decode are appended in the order of the listing, and the run that
\* reaches its update stores completed with processed_count equal to the
\* number of frames written.
C25_FrameSkip ==
    [][\A r \in DOMAIN runs, s \in SessionIds :
          (runs[r].pc # "idle" /\ runs[r].sid = s) =>
             /\ (/\ runs[r].pc = "loop"
                 /\ runs[r].i > 1
                 /\ runs[r].i <= Len(runs[r].image_paths)
                 /\ ~(dirExists[s] /\ frames[s][runs[r].image_paths[runs[r].i]] = "ok")
                 /\ RunFrame(r))
                    => /\ runs'[r] = [runs[r] EXCEPT !.i = runs[r].i + 1]
                       /\ artifact' = artifact
             /\ (/\ runs[r].pc = "loop"
                 /\ RunFrame(r)
                 /\ runs'[r].pc = "loop"
                 /\ Len(runs'[r].out) > Len(runs[r].out))
                    => /\ runs'[r].out[Len(runs'[r].out)].path = runs[r].image_paths[runs[r].i]
                       /\ runs'[r].i = runs[r].i + 1
                       /\ runs'[r].processed_count = Len(runs'[r].out)
             /\ (runs[r].pc = "update" /\ Known(s) /\ RunUpdate(r))
                    => /\ Status(s)' = "completed"
                       /\ sessions'[s].processed_count = Len(runs[r].out)]_vars

C25_Witness ==
    \E s \in SessionIds :
        /\ Known(s) /\ Status(s) = "completed"
        /\ sessions[s].file_count = 2
        /\ sessions[s].processed_count = 1
        /\ dirExists[s] /\ frames[s][0] = "ok" /\ frames[s][1] = "bad"
        /\ ActiveRuns(s) = {}
        /\ nRuns = 1 /\ nUploads = 1

\* C27: output_path is written only in the step that sets the status to
\* completed: a record with status completed has one, and a record gains
\* one only in a step of a run that stores completed.
C27_PathWithCompleted ==
    [][\A s \in SessionIds :
          /\ (Known(s)' /\ Status(s)' = "completed") => sessions'[s].output_path
          /\ (/\ Known(s)'
              /\ sessions'[s].output_path
              /\ ~(Known(s) /\ sessions[s].output_path))
                 => /\ Status(s)' = "completed"
                    /\ \E r \in DOMAIN runs : runs[r].pc = "update" /\ RunUpdate(r)]_vars

C27_Witness ==
    \E s \in SessionIds :
        /\ Known(s) /\ Status(s) = "completed"
        /\ sessions[s].output_path
        /\ artifact[s] = "complete"
        /\ ActiveRuns(s) = {}

\* C28: when a run ends by setting the status to error, it leaves no output
\* file at the session's output path and the record refers to none.
C28_ErrorLeavesNoArtifact ==
    [][\A r \in DOMAIN runs, s \in SessionIds :
          (/\ runs[r].pc = "seterror"
           /\ runs[r].sid = s
           /\ Known(s)
           /\ RunSetError(r))
              => /\ Status(s)' = "error"
                 /\ artifact'[s] = "none"
                 /\ ~sessions'[s].output_path]_vars

\* C23: in every record with status completed, processed_count is at most
\* file_count and max_people_in_frame is not negative, whatever runs and
\* uploads overlapped.
C23_ProcessedWithinAccepted ==
    \A s \in SessionIds :
        (Known(s) /\ Status(s) = "completed")
            => /\ sessions[s].processed_count <= sessions[s].file_count
               /\ sessions[s].max_people_in_frame >= 0

RECURSIVE SumPeople(_)
SumPeople(out) == IF out = <<>> THEN 0 ELSE Head(out).people + SumPeople(Tail(out))

RECURSIVE MaxOfPeople(_)
MaxOfPeople(out) ==
    IF out = <<>> THEN 0
    ELSE LET m == MaxOfPeople(Tail(out))
         IN  IF Head(out).people >= m THEN Head(out).people ELSE m

\* C26: for the per-frame person counts of the frames a run has processed,
\* total_people is their sum and max_people_in_frame their maximum (0 when
\* there are none), so the maximum is at most the total; the update that
\* stores completed publishes these two values.
C26_SumAndMax ==
    [][/\ \A r \in DOMAIN runs, s \in SessionIds :
          (runs'[r].pc # "idle" /\ runs'[r].sid = s)
              => /\ runs'[r].total_people = SumPeople(runs'[r].out)
                 /\ runs'[r].max_people_in_frame = MaxOfPeople(runs'[r].out)
                 /\ runs'[r].max_people_in_frame <= runs'[r].total_people
       /\ \A r \in DOMAIN runs, s \in SessionIds :
               (runs[r].pc = "update" /\ runs[r].sid = s /\ Known(s) /\ RunUpdate(r))
                  => /\ sessions'[s].total_people = SumPeople(runs[r].out)
                     /\ sessions'[s].max_people_in_frame = MaxOfPeople(runs[r].out)
                     /\ sessions'[s].max_people_in_frame <= sessions'[s].total_people]_vars

C26_Witness ==
    \E s \in SessionIds :
        /\ Known(s) /\ Status(s) = "completed"
        /\ sessions[s].processed_count = 2
        /\ sessions[s].total_people = 1
        /\ sessions[s].max_people_in_frame = 1

\* C22: the tracking state a run's model.track call works on is fresh at the
\* run's first call and afterwards was last touched by this run itself: no
\* earlier run and no run going on at the same time has left its tracks in
\* it.
C22_TrackerPerRun ==
    [][\A r \in DOMAIN runs, s \in SessionIds :
          (/\ runs[r].pc = "loop"
           /\ runs[r].sid = s
           /\ runs[r].i <= Len(runs[r].image_paths)
           /\ Readable(s, runs[r].image_paths[runs[r].i])
           /\ RunFrame(r))
              => IF runs[r].processed_count = 0 THEN tracker = 0 ELSE tracker = r]_vars

\* C30: a run writes only to the record it was scheduled for: when the
\* record under its id is a later one (the session was deleted and created
\* again by an upload), the run's completed or error write leaves that
\* record as it is.
C30_OwnIncarnation ==
    [][\A r \in DOMAIN runs, s \in SessionIds :
          (/\ runs[r].pc \in {"update", "seterror"}
           /\ runs[r].sid = s
           /\ Known(s)
           /\ runs[r].inc # incarnation[s]
           /\ RunUpdate(r) \/ RunSetError(r))
              => sessions'[s] = sessions[s]]_vars

\* C29: the polling client always terminates: once started it reaches its
\* return; it returns in the step in which it is given status error, goes
\* to the download in the step in which it is given completed and returns
\* from there, returns when the query fails or the timeout has expired, and
\* it sends the download request only after it was given status completed.
C29_Safe ==
    /\ (client.pc = "poll" /\ ClientPoll) =>
          /\ TimedOut(client) => (client'.pc = "done" /\ response'.op = "none")
          /\ (~TimedOut(client) /\ response'.code # 200) => client'.pc = "done"
          /\ (~TimedOut(client) /\ response'.code = 200) =>
                CASE response'.record.status = "completed" -> client'.pc = "download"
                  [] response'.record.status = "error" -> client'.pc = "done"
                  [] OTHER -> client'.pc = "poll" /\ client'.elapsed = client.elapsed + 1
    /\ client.pc = "download" => client.seen = "completed"
    /\ response'.op = "download" => (client.pc = "download" /\ client.seen = "completed")
    /\ response'.op = "status" => (client.pc = "poll" /\ client.seen \notin {"completed", "error"})
    /\ client.pc = "done" => client' = client

C29_ClientTerminates ==
    /\ [][C29_Safe]_vars
    /\ [](client.pc # "idle" => <>(client.pc = "done"))

C29_Witness ==
    /\ client.pc = "done"
    /\ client.seen = "completed"
    /\ response.op = "download" /\ response.code = 200

====
